---- MODULE Spec2Model ----
(***************************************************************************)
(* Model of ModernDD's arena allocator (util/MemoryPool.hpp) and of the    *)
(* state-buffer protocol of the DD specifications (NodeBddSpec.hpp).       *)
(*                                                                         *)
(* Spec     : MemoryPool objects driven through their public operations.   *)
(* SpecVec  : Spec plus the implicit copy of MemoryPool objects and their  *)
(*            destruction, as they happen to elements of MemoryPools.      *)
(* SpecDd   : one DdSpec / PodArrayDdSpec / HybridDdSpec / StatelessDdSpec *)
(*            instance driven by a builder over buffers in word memory.    *)
(***************************************************************************)
EXTENDS Integers, Sequences, FiniteSets, TLC

(***************************************************************************)
(* Bounds of the model.                                                    *)
(***************************************************************************)
\* number of MemoryPool objects
NumPools == 2
\* number of MemoryPool calls made in one behaviour
MaxCalls == 4
\* byte capacity of a block (400000 in the source, scaled down)
BlockBytes == 80

(***************************************************************************)
(* MemoryPool: constants.                                                  *)
(***************************************************************************)
UNIT_SIZE == 8
BLOCK_UNITS == BlockBytes \div UNIT_SIZE
MAX_ELEMENT_UNIS == BLOCK_UNITS \div 10

Pools == 1..NumPools
\* every call allocates at most one block
MaxBlocks == MaxCalls
Blocks == 1..MaxBlocks
NULL == 0

\* request sizes in bytes: zero, the largest bump-path size, just above the
\* large-object threshold (a dedicated block smaller than BLOCK_UNITS) and
\* above a whole block (a dedicated block larger than BLOCK_UNITS)
AllocSizes ==
    {0, UNIT_SIZE * MAX_ELEMENT_UNIS, UNIT_SIZE * MAX_ELEMENT_UNIS + 1,
     UNIT_SIZE * (BLOCK_UNITS + 2)}

VARIABLES
    blockList,   \* [Pools -> Blocks \cup {NULL}]  MemoryPool::blockList
    nextUnit,    \* [Pools -> Nat]                 MemoryPool::nextUnit
    heapNext,    \* [Blocks -> Blocks \cup {NULL}] Unit::next of a block's unit 0
    heapSize,    \* [Blocks -> Nat] units of the block as given to new Unit[m]
    heapState,   \* [Blocks -> {"unalloc", "live", "freed"}]
    regions,     \* regions returned by alloc whose block has not been retired
    hist,        \* [Pools -> {"fresh", "reused", "mixed"}] what the pool went through
    last,        \* the call that was made last, its arguments and its result
    calls,       \* number of calls made so far
    ub           \* a call dereferenced freed memory or walked a cyclic chain

\* state of the DD specification instance and of the buffers it is used on
VARIABLES
    kind,        \* which of the four spec classes the instance derives from
    sizeofS,     \* sizeof(State) / sizeof(S_State) in bytes
    sizeofA,     \* sizeof(State) of a POD array element / sizeof(A_State)
    arraySize,   \* PodArrayDdSpec::arraySize / HybridDdSpec::arraySize
    dataWords,   \* PodArrayDdSpec::dataWords / HybridDdSpec::dataWords
    mem,         \* word-addressed memory holding the state buffers
    built,       \* [Bufs -> BOOLEAN] the builder keeps a state in the buffer
    objs,        \* [Bufs -> Int] State objects constructed and not destroyed
    dlast        \* the protocol call that was made last and its result

\* state of the threads that allocate from a pool of their own
VARIABLES
    wstate       \* [Pools -> {"running", "finished", "spliced"}]

ddVars == <<kind, sizeofS, sizeofA, arraySize, dataWords, mem, built, objs, dlast>>

\* what no call on a pool changes
otherVars == <<ddVars, wstate>>

poolState == <<blockList, nextUnit, heapNext, heapSize, heapState, regions, hist, last>>
poolVars == <<poolState, calls, ub>>

NoCall ==
    [op |-> "none", pool |-> 0, other |-> 0, n |-> 0, large |-> FALSE,
     blk |-> NULL, off |-> 0, len |-> 0, preHead |-> NULL, preCursor |-> 0,
     preOther |-> 0, newBlock |-> NULL, freedTwice |-> FALSE,
     afterLarge |-> FALSE]

PoolInit ==
    /\ blockList = [p \in Pools |-> NULL]
    /\ nextUnit = [p \in Pools |-> BLOCK_UNITS]
    /\ heapNext = [b \in Blocks |-> NULL]
    /\ heapSize = [b \in Blocks |-> 0]
    /\ heapState = [b \in Blocks |-> "unalloc"]
    /\ regions = {}
    /\ hist = [p \in Pools |-> "fresh"]
    /\ last = NoCall
    /\ calls = 0
    /\ ub = FALSE
    /\ wstate = [p \in Pools |-> "running"]

(***************************************************************************)
(* The chain of blocks reachable from a head pointer.                      *)
(***************************************************************************)
RECURSIVE Walk(_, _, _)
Walk(hn, b, fuel) ==
    IF b = NULL \/ fuel = 0 THEN <<>> ELSE <<b>> \o Walk(hn, hn[b], fuel - 1)

ChainFrom(hn, head) == Walk(hn, head, MaxBlocks + 1)
Chain(p) == ChainFrom(heapNext, blockList[p])
SeqSet(s) == {s[i] : i \in 1..Len(s)}
ChainSet(p) == SeqSet(Chain(p))

\* the walk ends at a null link without touching freed memory
Walkable(ch) ==
    /\ Cardinality(SeqSet(ch)) = Len(ch)
    /\ \A i \in 1..Len(ch) : heapState[ch[i]] = "live"

\* operator new[]: the next block never handed out before
Fresh == Cardinality({b \in Blocks : heapState[b] # "unalloc"}) + 1
CanNew == Fresh \in Blocks

ElementUnits(n) == (n + UNIT_SIZE - 1) \div UNIT_SIZE

Region(b, o, l) == [blk |-> b, off |-> o, len |-> l]
Keep(r) == IF r.len > 0 THEN {r} ELSE {}

\* a call can be made: the behaviour is still defined and within its bound
Callable == ~ub /\ calls < MaxCalls

Undefined(call) ==
    /\ ub' = TRUE
    /\ last' = call
    /\ UNCHANGED <<blockList, nextUnit, heapNext, heapSize, heapState, regions, hist>>

(***************************************************************************)
(* MemoryPool::alloc                                                       *)
(***************************************************************************)
\* AllocLarge that links the dedicated block in as the new head
AllocLargeAtHead(p, e, call) ==
    /\ CanNew
    /\ LET b == Fresh
       IN  /\ heapNext' = [heapNext EXCEPT ![b] = blockList[p]]
           /\ blockList' = [blockList EXCEPT ![p] = b]
           /\ heapSize' = [heapSize EXCEPT ![b] = e + 1]
           /\ heapState' = [heapState EXCEPT ![b] = "live"]
           /\ regions' = regions \cup Keep(Region(b, 1, e))
           /\ last' = [call EXCEPT !.large = TRUE, !.blk = b, !.off = 1, !.len = e,
                                   !.newBlock = b]
           /\ UNCHANGED <<nextUnit, hist, ub>>

AllocLarge(p, e, call) ==
    /\ CanNew
    /\ LET b == Fresh
           head == blockList[p]
       IN  IF head # NULL /\ heapState[head] # "live"
           THEN Undefined(call)
           ELSE /\ heapNext' = IF head = NULL
                               THEN [heapNext EXCEPT ![b] = NULL]
                               ELSE [heapNext EXCEPT ![b] = heapNext[head], ![head] = b]
                /\ blockList' = IF head = NULL THEN [blockList EXCEPT ![p] = b] ELSE blockList
                /\ heapSize' = [heapSize EXCEPT ![b] = e + 1]
                /\ heapState' = [heapState EXCEPT ![b] = "live"]
                /\ regions' = regions \cup Keep(Region(b, 1, e))
                /\ last' = [call EXCEPT !.large = TRUE, !.blk = b, !.off = 1, !.len = e,
                                        !.newBlock = b]
                /\ UNCHANGED <<nextUnit, hist, ub>>

\* AllocBump that never takes a new block
AllocBump_NoNewBlock(p, e, call) ==
    /\ nextUnit' = [nextUnit EXCEPT ![p] = nextUnit[p] + e]
    /\ regions' = regions \cup Keep(Region(blockList[p], nextUnit[p], e))
    /\ last' = [call EXCEPT !.blk = blockList[p], !.off = nextUnit[p], !.len = e]
    /\ UNCHANGED <<blockList, heapNext, heapSize, heapState, hist, ub>>

AllocBump(p, e, call) ==
    IF nextUnit[p] + e > BLOCK_UNITS
    THEN /\ CanNew
         /\ LET b == Fresh
            IN  /\ heapNext' = [heapNext EXCEPT ![b] = blockList[p]]
                /\ heapSize' = [heapSize EXCEPT ![b] = BLOCK_UNITS]
                /\ heapState' = [heapState EXCEPT ![b] = "live"]
                /\ blockList' = [blockList EXCEPT ![p] = b]
                /\ nextUnit' = [nextUnit EXCEPT ![p] = 1 + e]
                /\ regions' = regions \cup Keep(Region(b, 1, e))
                /\ last' = [call EXCEPT !.blk = b, !.off = 1, !.len = e, !.newBlock = b]
                /\ UNCHANGED <<hist, ub>>
    ELSE /\ nextUnit' = [nextUnit EXCEPT ![p] = nextUnit[p] + e]
         /\ regions' = regions \cup Keep(Region(blockList[p], nextUnit[p], e))
         /\ last' = [call EXCEPT !.blk = blockList[p], !.off = nextUnit[p], !.len = e]
         /\ UNCHANGED <<blockList, heapNext, heapSize, heapState, hist, ub>>

alloc(p, n) ==
    LET e == ElementUnits(n)
        \* afterLarge: the call before this one was an oversized alloc on this
        \* pool, which was not empty then
        call == [NoCall EXCEPT !.op = "alloc", !.pool = p, !.n = n,
                               !.preHead = blockList[p], !.preCursor = nextUnit[p],
                               !.afterLarge = /\ last.op = "alloc"
                                              /\ last.large
                                              /\ last.pool = p
                                              /\ last.preHead # NULL]
    IN  IF e > MAX_ELEMENT_UNIS THEN AllocLarge(p, e, call) ELSE AllocBump(p, e, call)

Alloc(p, n) ==
    /\ Callable
    /\ calls' = calls + 1
    /\ alloc(p, n)
    /\ UNCHANGED otherVars

(***************************************************************************)
(* MemoryPool::clear, ~MemoryPool, MemoryPool::reuse                       *)
(***************************************************************************)
Release(p, call) ==
    LET ch == Chain(p)
    IN  IF ~Walkable(ch)
        THEN Undefined([call EXCEPT !.freedTwice =
                            \E i \in 1..Len(ch) : heapState[ch[i]] = "freed"])
        ELSE /\ heapState' = [b \in Blocks |-> IF b \in SeqSet(ch) THEN "freed" ELSE heapState[b]]
             /\ blockList' = [blockList EXCEPT ![p] = NULL]
             /\ nextUnit' = [nextUnit EXCEPT ![p] = BLOCK_UNITS]
             /\ regions' = {r \in regions : r.blk \notin SeqSet(ch)}
             /\ hist' = [hist EXCEPT ![p] = "fresh"]
             /\ last' = call
             /\ UNCHANGED <<heapNext, heapSize, ub>>

Clear(p) ==
    /\ Callable
    /\ calls' = calls + 1
    /\ Release(p, [NoCall EXCEPT !.op = "clear", !.pool = p, !.preHead = blockList[p],
                                 !.preCursor = nextUnit[p]])
    /\ UNCHANGED otherVars

Reuse(p) ==
    LET ch == Chain(p)
        call == [NoCall EXCEPT !.op = "reuse", !.pool = p, !.preHead = blockList[p],
                               !.preCursor = nextUnit[p]]
    IN  /\ Callable
        /\ calls' = calls + 1
        /\ UNCHANGED otherVars
        /\ IF blockList[p] = NULL
           THEN /\ last' = call
                /\ UNCHANGED <<blockList, nextUnit, heapNext, heapSize, heapState, regions,
                               hist, ub>>
           ELSE IF ~Walkable(ch)
           THEN Undefined(call)
           ELSE LET tail == ch[Len(ch)]
                IN  /\ heapState' = [b \in Blocks |->
                                        IF b \in SeqSet(ch) \ {tail} THEN "freed"
                                        ELSE heapState[b]]
                    /\ blockList' = [blockList EXCEPT ![p] = tail]
                    /\ nextUnit' = [nextUnit EXCEPT ![p] = 1]
                    /\ regions' = {r \in regions : r.blk \notin SeqSet(ch)}
                    /\ hist' = [hist EXCEPT ![p] = "reused"]
                    /\ last' = call
                    /\ UNCHANGED <<heapNext, heapSize, ub>>

(***************************************************************************)
(* MemoryPool::splice, MemoryPool::moveFrom                                *)
(***************************************************************************)
\* SpliceRear with the link from o's rear to this pool's head left out
SpliceRearUnlinked(a, o) == heapNext

\* the links after "*rear = blockList": the rear of o's chain points at this
\* pool's head (when o is empty the rear is o.blockList itself)
SpliceRear(a, o) ==
    IF blockList[a] # NULL /\ blockList[o] # NULL
    THEN [heapNext EXCEPT ![Chain(o)[Len(Chain(o))]] = blockList[a]]
    ELSE heapNext

\* splice that links the other pool's chain in behind this pool's head
splice_AfterHead(a, o) ==
    /\ heapNext' = IF blockList[a] # NULL /\ blockList[o] # NULL
                   THEN [heapNext EXCEPT ![blockList[a]] = blockList[o],
                                         ![Chain(o)[Len(Chain(o))]] = heapNext[blockList[a]]]
                   ELSE heapNext
    /\ blockList' = [blockList EXCEPT ![a] = IF @ # NULL THEN @ ELSE blockList[o],
                                      ![o] = NULL]
    /\ nextUnit' = [nextUnit EXCEPT ![a] = nextUnit[o], ![o] = BLOCK_UNITS]
    /\ last' = [NoCall EXCEPT !.op = "splice", !.pool = a, !.other = o,
                              !.preHead = blockList[a], !.preCursor = nextUnit[a],
                              !.preOther = nextUnit[o]]
    /\ UNCHANGED <<heapSize, heapState, regions, hist, ub>>

splice(a, o) ==
    LET och == Chain(o)
        call == [NoCall EXCEPT !.op = "splice", !.pool = a, !.other = o,
                               !.preHead = blockList[a], !.preCursor = nextUnit[a],
                               !.preOther = nextUnit[o]]
    IN  IF blockList[a] # NULL /\ ~Walkable(och)
        THEN Undefined(call)
        ELSE /\ heapNext' = SpliceRear(a, o)
             /\ blockList' = [blockList EXCEPT
                                 ![a] = IF blockList[a] # NULL /\ blockList[o] = NULL
                                        THEN blockList[a] ELSE blockList[o],
                                 ![o] = NULL]
             /\ nextUnit' = [nextUnit EXCEPT ![a] = nextUnit[o], ![o] = BLOCK_UNITS]
             /\ hist' = [hist EXCEPT ![a] = "mixed", ![o] = IF a = o THEN "mixed" ELSE "fresh"]
             /\ last' = call
             /\ UNCHANGED <<heapSize, heapState, regions, ub>>

Splice(a, o) ==
    /\ Callable
    /\ calls' = calls + 1
    /\ splice(a, o)
    /\ UNCHANGED otherVars

MoveFrom(a, o) ==
    /\ Callable
    /\ calls' = calls + 1
    /\ blockList' = [blockList EXCEPT ![a] = blockList[o], ![o] = NULL]
    /\ nextUnit' = [nextUnit EXCEPT ![a] = nextUnit[o]]
    /\ hist' = [hist EXCEPT ![a] = "mixed", ![o] = "mixed"]
    /\ last' = [NoCall EXCEPT !.op = "moveFrom", !.pool = a, !.other = o,
                              !.preHead = blockList[a], !.preCursor = nextUnit[a],
                              !.preOther = nextUnit[o]]
    /\ UNCHANGED <<heapNext, heapSize, heapState, regions, ub>>
    /\ UNCHANGED otherVars

(***************************************************************************)
(* The implicitly defined copy of a MemoryPool (its copy constructor and   *)
(* copy assignment are commented out in the source, so the compiler's      *)
(* member-wise copy is what copies an element of MemoryPools), and the     *)
(* destructor; the destroyed object's place is taken by a new pool.        *)
(***************************************************************************)
CopyFrom(a, o) ==
    /\ Callable
    /\ calls' = calls + 1
    /\ a # o
    /\ blockList' = [blockList EXCEPT ![a] = blockList[o]]
    /\ nextUnit' = [nextUnit EXCEPT ![a] = nextUnit[o]]
    /\ hist' = [hist EXCEPT ![a] = "mixed", ![o] = "mixed"]
    /\ last' = [NoCall EXCEPT !.op = "copy", !.pool = a, !.other = o,
                              !.preHead = blockList[a], !.preCursor = nextUnit[a],
                              !.preOther = nextUnit[o]]
    /\ UNCHANGED <<heapNext, heapSize, heapState, regions, ub>>
    /\ UNCHANGED otherVars

Destroy(p) ==
    /\ Callable
    /\ calls' = calls + 1
    /\ Release(p, [NoCall EXCEPT !.op = "destroy", !.pool = p, !.preHead = blockList[p],
                                 !.preCursor = nextUnit[p]])
    /\ UNCHANGED otherVars

(***************************************************************************)
(* DD specifications: bounds and configuration.                            *)
(***************************************************************************)
\* number of protocol calls made in one behaviour
MaxDdCalls == 4
\* number of state buffers the builder uses
NumBufs == 2
\* largest argument of setArraySize
MaxArraySize == 3

WORD_SIZE == 8
ARITY == 2
HASH_CONST_BASE == 314159257
HASH_CONST_POD_ARRAY == 314159257
HASH_HYBRID_SPEC1 == 271828171
HASH_HYBRID_SPEC2 == 314159257

\* sizeof of the state types the user instantiates the templates with
ScalarSizes == {1, 2, 8, 12}
HybridScalarSizes == {4, 12}
ElementSizes == {4}

Configs ==
    {[kind |-> "stateless", s |-> 0, a |-> 0]}
    \cup {[kind |-> "scalar", s |-> z, a |-> 0] : z \in ScalarSizes}
    \cup {[kind |-> "pod", s |-> 0, a |-> z] : z \in ElementSizes}
    \cup {[kind |-> "hybrid", s |-> z, a |-> y] : z \in HybridScalarSizes, y \in ElementSizes}

Bufs == 0..(NumBufs - 1)
Levels == {1, 2}
Values == 0..(ARITY - 1)

\* what the user's getRoot / getChild does to the state and returns
UserChoices ==
    {[w |-> "keep", code |-> 0], [w |-> "ones", code |-> -1],
     [w |-> "head", code |-> 1], [w |-> "tail", code |-> 2]}

\* the user's getChild of the modelled specification: what it does to the
\* state depends on the level and the branch taken
UserGetChild(level, value) ==
    CHOOSE u \in UserChoices : u.code = (IF level = 1 THEN 0 ELSE 2) - (value % ARITY)

SetMax(S) == CHOOSE x \in S : \A y \in S : y <= x
\* WordsFor that rounds down
WordsFor_Floor(bytes) == bytes \div WORD_SIZE

\* (bytes + sizeof(Word) - 1) / sizeof(Word)
WordsFor(bytes) == (bytes + WORD_SIZE - 1) \div WORD_SIZE

MemWords ==
    (NumBufs + 1) * (WordsFor(SetMax(ScalarSizes \cup HybridScalarSizes))
                     + WordsFor(MaxArraySize * SetMax(ElementSizes)))
Addrs == 0..(MemWords - 1)

NoDdCall ==
    [op |-> "none", p |-> 0, q |-> 0, level |-> 0, value |-> 0, n |-> 0, code |-> 0,
     w |-> "none", hash |-> <<>>, size |-> <<>>, eq |-> FALSE, error |-> FALSE, events |-> <<>>,
     oob |-> FALSE,
     srcKept |-> TRUE, afterCopy |-> FALSE, changed |-> FALSE, aborted |-> FALSE]

\* memory handed out by the pool is not initialised; every word differs
JunkWord(a) == [i \in 1..WORD_SIZE |-> 100 + a]

DdInit ==
    /\ \E c \in Configs : kind = c.kind /\ sizeofS = c.s /\ sizeofA = c.a
    /\ arraySize = -1
    /\ dataWords = -1
    /\ mem = [a \in Addrs |-> JunkWord(a)]
    /\ built = [b \in Bufs |-> FALSE]
    /\ objs = [b \in Bufs |-> 0]
    /\ dlast = NoDdCall

(***************************************************************************)
(* Buffer layout.                                                          *)
(***************************************************************************)
S_WORDS == WordsFor(sizeofS)

\* datasize() in bytes, once the array size is set where there is one
datasize ==
    CASE kind = "scalar" -> sizeofS
      [] kind \in {"pod", "hybrid"} -> dataWords * WORD_SIZE
      [] OTHER -> 0

Configured == kind \in {"pod", "hybrid"} => dataWords >= 0

\* the builder takes a buffer of datasize() bytes per node from a pool, which
\* hands out whole units one after the other
BufWords == ElementUnits(datasize)
Base(b) == b * BufWords

\* byte offsets of the typed state inside a buffer
ScalarBytes == IF kind \in {"scalar", "hybrid"} THEN 0..(sizeofS - 1) ELSE {}
ArrayOffset == IF kind = "hybrid" THEN S_WORDS * WORD_SIZE ELSE 0
ArrayBytes ==
    IF kind \in {"pod", "hybrid"}
    THEN ArrayOffset..(ArrayOffset + arraySize * sizeofA - 1)
    ELSE {}
StateBytes == ScalarBytes \cup ArrayBytes

ByteAt(m, p, k) == m[p + k \div WORD_SIZE][(k % WORD_SIZE) + 1]

\* m with the bytes of the buffer at word p set as f says (f: offset -> byte)
WriteBytes(m, p, f) ==
    [a \in DOMAIN m |->
        [i \in 1..WORD_SIZE |->
            LET k == (a - p) * WORD_SIZE + (i - 1)
            IN  IF k \in DOMAIN f THEN f[k] ELSE m[a][i]]]

\* the user's callback writes the typed state it is handed
UserWrite(m, p, w) ==
    IF w = "keep" \/ StateBytes = {}
    THEN m
    ELSE LET lo == CHOOSE k \in StateBytes : \A j \in StateBytes : k <= j
             hi == CHOOSE k \in StateBytes : \A j \in StateBytes : j <= k
         IN  WriteBytes(m, p, [k \in StateBytes |->
                                 IF (w = "head" /\ k = lo) \/ (w = "tail" /\ k = hi)
                                 THEN 2 ELSE 1])

(***************************************************************************)
(* size_t arithmetic: a value is its 8 bytes, least significant first.     *)
(***************************************************************************)
Zero64 == [i \in 1..WORD_SIZE |-> 0]

RECURSIVE Carry(_, _, _)
\* the columns cols[i..8], with carry c coming in, reduced modulo 2^64
Carry(cols, i, c) ==
    IF i > WORD_SIZE THEN <<>>
    ELSE LET t == cols[i] + c IN <<t % 256>> \o Carry(cols, i + 1, t \div 256)

Add64(x, y) == Carry([i \in 1..WORD_SIZE |-> x[i] + y[i]], 1, 0)

\* x * k modulo 2^64 for an int constant k >= 0, taken in two 16-bit halves
Mul64(x, k) ==
    Carry([j \in 1..WORD_SIZE |->
              x[j] * (k % 65536) + (IF j > 2 THEN x[j - 2] * (k \div 65536) ELSE 0)],
          1, 0)

\* FoldStep that multiplies before it adds
FoldStep_MulFirst(h, it, k) == Add64(Mul64(h, k), it)

\* h += it; h *= k
FoldStep(h, it, k) == Mul64(Add64(h, it), k)

(***************************************************************************)
(* DdSpecBase::rawHashCode / rawEqualTo over the sz bytes at word p.       *)
(***************************************************************************)
\* sizeof(I) of the integer type the value is scanned as
RawWidth(sz) ==
    IF sz % 8 = 0 THEN 8 ELSE IF sz % 4 = 0 THEN 4 ELSE IF sz % 2 = 0 THEN 2 ELSE 1

\* element e (from 0) of width w, converted to size_t
RawElem(m, p, e, w) ==
    [i \in 1..WORD_SIZE |-> IF i <= w THEN ByteAt(m, p, e * w + i - 1) ELSE 0]

RECURSIVE RawFold(_, _, _, _, _, _)
RawFold(m, p, w, e, cnt, h) ==
    IF e >= cnt THEN h
    ELSE RawFold(m, p, w, e + 1, cnt, FoldStep(h, RawElem(m, p, e, w), HASH_CONST_BASE))

rawHashCode(m, p, sz) == RawFold(m, p, RawWidth(sz), 0, sz \div RawWidth(sz), Zero64)

rawEqualTo(m, p, q, sz) ==
    \A e \in 0..(sz \div RawWidth(sz) - 1) :
        RawElem(m, p, e, RawWidth(sz)) = RawElem(m, q, e, RawWidth(sz))

(***************************************************************************)
(* hash_code and equal_to of the variants (default hashCode / equalTo).    *)
(***************************************************************************)
RECURSIVE WordFold(_, _, _, _, _, _)
\* accumulate over the words [i, n) of the buffer at p
WordFold(m, p, i, n, h, k) ==
    IF i >= n THEN h ELSE WordFold(m, p, i + 1, n, FoldStep(h, m[p + i], k), k)

DdSpec_hash_code(m, p, level) == rawHashCode(m, p, sizeofS)
DdSpec_equal_to(m, p, q, level) == rawEqualTo(m, p, q, sizeofS)

PodArray_hash_code(m, p, level) == WordFold(m, p, 0, dataWords, Zero64, HASH_CONST_POD_ARRAY)
PodArray_equal_to(m, p, q, level) == \A i \in 0..(dataWords - 1) : m[p + i] = m[q + i]

\* Hybrid_hash_code that folds the words of the scalar prefix as well
Hybrid_hash_code_AllWords(m, p, level) ==
    WordFold(m, p, 0, dataWords,
             Mul64(rawHashCode(m, p, sizeofS), HASH_HYBRID_SPEC1),
             HASH_HYBRID_SPEC2)

Hybrid_hash_code(m, p, level) ==
    WordFold(m, p, S_WORDS, dataWords,
             Mul64(rawHashCode(m, p, sizeofS), HASH_HYBRID_SPEC1),
             HASH_HYBRID_SPEC2)

Hybrid_equal_to(m, p, q, level) ==
    /\ rawEqualTo(m, p, q, sizeofS)
    /\ \A i \in S_WORDS..(dataWords - 1) : m[p + i] = m[q + i]

hash_code(m, p, level) ==
    CASE kind = "scalar" -> DdSpec_hash_code(m, p, level)
      [] kind = "pod" -> PodArray_hash_code(m, p, level)
      [] kind = "hybrid" -> Hybrid_hash_code(m, p, level)
      [] OTHER -> Zero64

equal_to(m, p, q, level) ==
    CASE kind = "scalar" -> DdSpec_equal_to(m, p, q, level)
      [] kind = "pod" -> PodArray_equal_to(m, p, q, level)
      [] kind = "hybrid" -> Hybrid_equal_to(m, p, q, level)
      [] OTHER -> TRUE

(***************************************************************************)
(* construct, getCopy / get_copy and destruct of the variants.             *)
(***************************************************************************)
HasScalar == kind \in {"scalar", "hybrid"}

\* new (p) State(): the scalar is value-initialised in place
construct(m, p) == WriteBytes(m, p, [k \in ScalarBytes |-> 0])

\* new (p) State(s): the scalar is copy-constructed in place
getCopy(m, to, from) == WriteBytes(m, to, [k \in ScalarBytes |-> ByteAt(m, from, k)])

DdSpec_get_copy(m, to, from) == getCopy(m, to, from)

\* PodArray_get_copy that stops one word short
PodArray_get_copy_Short(m, to, from) ==
    [a \in DOMAIN m |-> IF a - to \in 0..(dataWords - 2) THEN m[from + (a - to)] ELSE m[a]]

PodArray_get_copy(m, to, from) ==
    [a \in DOMAIN m |-> IF a - to \in 0..(dataWords - 1) THEN m[from + (a - to)] ELSE m[a]]

\* the array words [S_WORDS, dataWords) of from are copied to aux_q.end(), that
\* is to the words that start dataWords after to
Hybrid_get_copy(m, to, from) ==
    LET m1 == getCopy(m, to, from)
    IN  [a \in DOMAIN m1 |->
            IF a - (to + dataWords) \in 0..(dataWords - S_WORDS - 1)
            THEN m1[from + S_WORDS + (a - (to + dataWords))]
            ELSE m1[a]]

get_copy(m, to, from) ==
    CASE kind = "scalar" -> DdSpec_get_copy(m, to, from)
      [] kind = "pod" -> PodArray_get_copy(m, to, from)
      [] kind = "hybrid" -> Hybrid_get_copy(m, to, from)
      [] OTHER -> m

\* get_copy writes words outside the datasize() bytes of its destination
WritesOutside(to, from) ==
    \E a \in Addrs : get_copy(mem, to, from)[a] # mem[a] /\ a - to \notin 0..(BufWords - 1)

\* the objects in the buffers after a constructor ran in buffer b
Constructed(o, b) == IF HasScalar THEN [o EXCEPT ![b] = @ + 1] ELSE o

get_root(m, p, w) == UserWrite(IF HasScalar THEN construct(m, p) ELSE m, p, w)

get_root_events == IF HasScalar THEN <<"construct", "getRoot">> ELSE <<"getRoot">>

\* destruct that runs no destructor
destruct_Nothing(o, b) == o

\* the objects in the buffers after destruct(p) on buffer b
destruct(o, b) == IF kind = "scalar" THEN [o EXCEPT ![b] = @ - 1] ELSE o

(***************************************************************************)
(* The calls the builder makes on the specification instance.              *)
(***************************************************************************)
\* a call can be made: the process has not been aborted by a failed assert,
\* the behaviour is still defined and the bound is not reached
DdCallable == ~ub /\ ~dlast.aborted /\ calls < MaxDdCalls

DdCall(op) == [NoDdCall EXCEPT !.op = op]

DdFrame == UNCHANGED <<poolState, wstate, kind, sizeofS, sizeofA>>

\* setArraySize that lets an array size of 0 be set again
setArraySize_throws_Positive == kind = "pod" /\ arraySize > 0

\* setArraySize throws "Cannot set array size twice"; only PodArrayDdSpec checks
setArraySize_throws == kind = "pod" /\ arraySize >= 0

\* datasize that never throws
datasize_throws_Never == FALSE

\* datasize throws "Array size is unknown"; only PodArrayDdSpec checks
datasize_throws == kind = "pod" /\ dataWords < 0

RECURSIVE ToSizeT(_, _)
\* the k low bytes of the int i converted to size_t (two's complement)
ToSizeT(i, k) == IF k = 0 THEN <<>> ELSE <<i % 256>> \o ToSizeT(i \div 256, k - 1)

\* the size_t that datasize() returns
datasize_value ==
    IF kind \in {"pod", "hybrid"}
    THEN Mul64(ToSizeT(dataWords, WORD_SIZE), WORD_SIZE)
    ELSE ToSizeT(datasize, WORD_SIZE)

Datasize ==
    /\ DdCallable
    /\ calls' = calls + 1
    /\ dlast' = IF datasize_throws
                THEN [DdCall("datasize") EXCEPT !.error = TRUE]
                ELSE [DdCall("datasize") EXCEPT !.size = datasize_value]
    /\ UNCHANGED <<arraySize, dataWords, mem, built, objs, ub>>
    /\ DdFrame

SetArraySize(n) ==
    /\ DdCallable
    /\ kind \in {"pod", "hybrid"}
    /\ \A b \in Bufs : ~built[b]
    /\ calls' = calls + 1
    /\ IF setArraySize_throws
       THEN /\ dlast' = [DdCall("setArraySize") EXCEPT !.n = n, !.error = TRUE]
            /\ UNCHANGED <<arraySize, dataWords>>
       ELSE /\ arraySize' = n
            /\ dataWords' = (IF kind = "hybrid" THEN S_WORDS ELSE 0) + WordsFor(n * sizeofA)
            /\ dlast' = [DdCall("setArraySize") EXCEPT !.n = n]
    /\ UNCHANGED <<mem, built, objs, ub>>
    /\ DdFrame

GetRoot(b, u) ==
    /\ DdCallable
    /\ Configured
    /\ ~built[b]
    /\ calls' = calls + 1
    /\ mem' = get_root(mem, Base(b), u.w)
    /\ objs' = Constructed(objs, b)
    /\ built' = [built EXCEPT ![b] = TRUE]
    /\ dlast' = [DdCall("get_root") EXCEPT !.p = b, !.code = u.code, !.w = u.w,
                                          !.events = get_root_events,
                                          !.changed = (mem' # mem)]
    /\ UNCHANGED <<arraySize, dataWords, ub>>
    /\ DdFrame

\* get_child_assert of a build with NDEBUG
get_child_assert_Off(value) == TRUE

\* assert(value < S::ARITY) of a debug build holds (0 <= value holds of every
\* size_t)
get_child_assert(value) == value < ARITY

GetChild(b, level, value) ==
    /\ DdCallable
    /\ built[b]
    /\ calls' = calls + 1
    /\ IF ~get_child_assert(value)
       THEN /\ mem' = mem
            /\ dlast' = [DdCall("get_child") EXCEPT !.p = b, !.level = level,
                                                   !.value = value, !.aborted = TRUE]
       ELSE /\ mem' = UserWrite(mem, Base(b), UserGetChild(level, value).w)
            /\ dlast' = [DdCall("get_child") EXCEPT
                            !.p = b, !.level = level, !.value = value,
                            !.code = UserGetChild(level, value).code,
                            !.w = UserGetChild(level, value).w,
                            !.events = <<"getChild">>,
                            !.afterCopy = (dlast.op = "get_copy" /\ dlast.p = b),
                            !.changed = (mem' # mem)]
    /\ UNCHANGED <<arraySize, dataWords, built, objs, ub>>
    /\ DdFrame

GetCopy(to, from) ==
    /\ DdCallable
    /\ to # from
    /\ ~built[to]
    /\ built[from]
    /\ calls' = calls + 1
    /\ dlast' = [DdCall("get_copy") EXCEPT
                    !.p = to, !.q = from,
                    !.oob = WritesOutside(Base(to), Base(from)),
                    !.srcKept = \A i \in 0..(BufWords - 1) :
                                   get_copy(mem, Base(to), Base(from))[Base(from) + i]
                                       = mem[Base(from) + i],
                    !.changed = (get_copy(mem, Base(to), Base(from)) # mem)]
    /\ objs' = Constructed(objs, to)
    /\ built' = [built EXCEPT ![to] = TRUE]
       \* a write outside the buffer either lands in the memory behind it or
       \* ends the run
    /\ \/ /\ mem' = get_copy(mem, Base(to), Base(from))
          /\ ub' = ub
       \/ /\ WritesOutside(Base(to), Base(from))
          /\ mem' = mem
          /\ ub' = TRUE
    /\ UNCHANGED <<arraySize, dataWords>>
    /\ DdFrame

\* mergeStates that writes the first state and reports a merge
mergeStates_Writes(m, p1, p2) == [code |-> 1, mem |-> UserWrite(m, p1, "ones")]

\* the default mergeStates hook: the code returned and the memory left behind
mergeStates(m, p1, p2) == [code |-> 0, mem |-> m]

\* StatelessDdSpec::merge_states returns 0 itself; the others call the hook
merge_states(m, p1, p2) ==
    IF kind = "stateless" THEN [code |-> 0, mem |-> m] ELSE mergeStates(m, p1, p2)

MergeStates(b1, b2) ==
    /\ DdCallable
    /\ b1 # b2
    /\ built[b1]
    /\ built[b2]
    /\ calls' = calls + 1
    /\ mem' = merge_states(mem, Base(b1), Base(b2)).mem
    /\ dlast' = [DdCall("merge_states") EXCEPT
                    !.p = b1, !.q = b2,
                    !.code = merge_states(mem, Base(b1), Base(b2)).code,
                    !.events = IF kind = "stateless" THEN <<>> ELSE <<"mergeStates">>,
                    !.changed = (mem' # mem)]
    /\ UNCHANGED <<arraySize, dataWords, built, objs, ub>>
    /\ DdFrame

Destruct(b) ==
    /\ DdCallable
    /\ built[b]
    /\ calls' = calls + 1
    /\ objs' = destruct(objs, b)
    /\ built' = [built EXCEPT ![b] = FALSE]
    /\ dlast' = [DdCall("destruct") EXCEPT !.p = b]
    /\ UNCHANGED <<arraySize, dataWords, mem, ub>>
    /\ DdFrame

HashCode(b, level) ==
    /\ DdCallable
    /\ built[b]
    /\ calls' = calls + 1
    /\ dlast' = [DdCall("hash_code") EXCEPT !.p = b, !.level = level,
                                           !.hash = hash_code(mem, Base(b), level)]
    /\ UNCHANGED <<arraySize, dataWords, mem, built, objs, ub>>
    /\ DdFrame

EqualTo(b1, b2, level) ==
    /\ DdCallable
    /\ built[b1]
    /\ built[b2]
    /\ calls' = calls + 1
    /\ dlast' = [DdCall("equal_to") EXCEPT !.p = b1, !.q = b2, !.level = level,
                                          !.eq = equal_to(mem, Base(b1), Base(b2), level)]
    /\ UNCHANGED <<arraySize, dataWords, mem, built, objs, ub>>
    /\ DdFrame

(***************************************************************************)
(* Specifications.                                                         *)
(***************************************************************************)
vars == <<poolVars, ddVars, wstate>>

\* no DD specification instance is in use
DdIdle ==
    /\ kind = "none"
    /\ sizeofS = 0
    /\ sizeofA = 0
    /\ arraySize = -1
    /\ dataWords = -1
    /\ mem = <<>>
    /\ built = <<>>
    /\ objs = <<>>
    /\ dlast = NoDdCall

Init == PoolInit /\ DdIdle

PoolNext ==
    \/ \E p \in Pools, n \in AllocSizes : Alloc(p, n)
    \/ \E p \in Pools : Clear(p)
    \/ \E p \in Pools : Reuse(p)
    \/ \E a \in Pools, o \in Pools : Splice(a, o)
    \/ \E a \in Pools, o \in Pools : MoveFrom(a, o)

Next == PoolNext

Spec == Init /\ [][Next]_vars

VecNext ==
    \/ PoolNext
    \/ \E a \in Pools, o \in Pools : CopyFrom(a, o)
    \/ \E p \in Pools : Destroy(p)

SpecVec == Init /\ [][VecNext]_vars

DdNext ==
    \/ \E n \in 0..MaxArraySize : SetArraySize(n)
    \/ Datasize
    \/ \E b \in Bufs, u \in UserChoices : GetRoot(b, u)
    \/ \E b \in Bufs, level \in Levels, value \in Values \cup {ARITY} :
          GetChild(b, level, value)
    \/ \E to \in Bufs, from \in Bufs : GetCopy(to, from)
    \/ \E b1 \in Bufs, b2 \in Bufs : MergeStates(b1, b2)
    \/ \E b \in Bufs : Destruct(b)
    \/ \E b \in Bufs, level \in Levels : HashCode(b, level)
    \/ \E b1 \in Bufs, b2 \in Bufs, level \in Levels : EqualTo(b1, b2, level)

InitDd == PoolInit /\ DdInit

SpecDd == InitDd /\ [][DdNext]_vars

(***************************************************************************)
(* Worker threads that allocate from a pool of their own, and the thread   *)
(* that collects the pools into its own pool with splice once a worker is  *)
(* known to have finished.                                                 *)
(***************************************************************************)
\* number of alloc and splice calls made in one behaviour of the threads
MaxWorkerCalls == 5

Consumer == 0
Workers == Pools

WorkerCallable == ~ub /\ calls < MaxWorkerCalls

InitWorkers ==
    /\ blockList = [p \in Workers \cup {Consumer} |-> NULL]
    /\ nextUnit = [p \in Workers \cup {Consumer} |-> BLOCK_UNITS]
    /\ heapNext = [b \in Blocks |-> NULL]
    /\ heapSize = [b \in Blocks |-> 0]
    /\ heapState = [b \in Blocks |-> "unalloc"]
    /\ regions = {}
    /\ hist = [p \in Workers \cup {Consumer} |-> "fresh"]
    /\ last = NoCall
    /\ calls = 0
    /\ ub = FALSE
    /\ wstate = [w \in Workers |-> "running"]
    /\ DdIdle

\* a worker allocates from its own pool
WorkerAlloc(w, n) ==
    /\ WorkerCallable
    /\ wstate[w] = "running"
    /\ calls' = calls + 1
    /\ alloc(w, n)
    /\ UNCHANGED otherVars

\* a worker makes its last allocation known
WorkerFinish(w) ==
    /\ ~ub
    /\ wstate[w] = "running"
    /\ wstate' = [wstate EXCEPT ![w] = "finished"]
    /\ UNCHANGED <<poolVars, ddVars>>

\* the consuming thread takes over the pool of a worker that has finished
ConsumerSplice(w) ==
    /\ WorkerCallable
    /\ wstate[w] = "finished"
    /\ calls' = calls + 1
    /\ splice(Consumer, w)
    /\ wstate' = [wstate EXCEPT ![w] = "spliced"]
    /\ UNCHANGED ddVars

WorkersNext ==
    \/ \E w \in Workers, n \in AllocSizes : WorkerAlloc(w, n)
    \/ \E w \in Workers : WorkerFinish(w)
    \/ \E w \in Workers : ConsumerSplice(w)

SpecWorkers == InitWorkers /\ [][WorkersNext]_vars

(***************************************************************************)
(* Properties of MemoryPool.                                               *)
(***************************************************************************)
InBlock(b, off, len) == heapState[b] = "live" /\ 1 <= off /\ off + len <= heapSize[b]

Disjoint(r1, r2) ==
    r1.blk # r2.blk \/ r1.off + r1.len <= r2.off \/ r2.off + r2.len <= r1.off

\* C1: after reuse() on a non-empty pool exactly one block remains, the
\* cursor is 1, the retained block has the capacity of a freshly allocated
\* block, and every region a later bump-path alloc returns lies inside a
\* block the pool holds.
C1_ReuseLeavesFreshBlock ==
    /\ (last.op = "reuse" /\ last.preHead # NULL) =>
            /\ Len(Chain(last.pool)) = 1
            /\ nextUnit[last.pool] = 1
            /\ heapSize[blockList[last.pool]] >= BLOCK_UNITS
    /\ (last.op = "alloc" /\ ~last.large /\ hist[last.pool] = "reused") =>
            /\ last.blk \in ChainSet(last.pool)
            /\ InBlock(last.blk, last.off, last.len)

\* C2: the regions returned by alloc calls on a pool that has seen nothing
\* but alloc since its initial state are pairwise disjoint, each lies in a
\* block the pool holds, above unit 0, and spans the requested units.
C2_AllocRegionsDisjointInBlocks ==
    /\ (last.op = "alloc" /\ hist[last.pool] = "fresh") =>
            /\ last.blk \in ChainSet(last.pool)
            /\ last.len >= ElementUnits(last.n)
            /\ InBlock(last.blk, last.off, last.len)
    /\ \A p \in Pools : hist[p] = "fresh" =>
            \A r1 \in regions : r1.blk \in ChainSet(p) =>
                /\ InBlock(r1.blk, r1.off, r1.len)
                /\ \A r2 \in regions : r1 # r2 => Disjoint(r1, r2)

\* the step is the call a.splice(o)
SpliceStep(a, o) ==
    calls' = calls + 1 /\ last'.op = "splice" /\ last'.pool = a /\ last'.other = o

\* C3: a.splice(b) on distinct pools leaves b in its initial state, gives a
\* exactly the blocks of a and of b, each once, frees no block, so that every
\* region that lay in a block of a or b lies in a block of a, and gives a
\* the cursor b had.
C3_SpliceTransfersOwnership ==
    [][\A a \in Pools, o \in Pools : (a # o /\ SpliceStep(a, o)) =>
          LET after == ChainFrom(heapNext', blockList'[a])
          IN  /\ blockList'[o] = NULL
              /\ nextUnit'[o] = BLOCK_UNITS
              /\ Len(after) = Len(Chain(a)) + Len(Chain(o))
              /\ SeqSet(after) = ChainSet(a) \cup ChainSet(o)
              /\ Cardinality(SeqSet(after)) = Len(after)
              /\ heapState' = heapState
              /\ heapSize' = heapSize
              /\ regions' = regions
              /\ \A r \in regions : r.blk \in ChainSet(a) \cup ChainSet(o) =>
                                        r.blk \in SeqSet(after)
              /\ nextUnit'[a] = nextUnit[o]
      ]_vars

\* a.splice(b) was called with both pools holding blocks and regions
C3_Witness ==
    /\ last.op = "splice"
    /\ last.pool # last.other
    /\ last.preHead # NULL
    /\ blockList[last.pool] # last.preHead
    /\ \E r1 \in regions, r2 \in regions :
          /\ r1.blk = last.preHead
          /\ r2.blk = blockList[last.pool]

\* C4: no block is in the chains of two pools, no block is freed twice and
\* no pool holds a freed block.
C4_ExclusiveOwnership ==
    /\ \A p \in Pools, q \in Pools : p # q => ChainSet(p) \cap ChainSet(q) = {}
    /\ \A p \in Pools : \A b \in ChainSet(p) : heapState[b] = "live"
    /\ ~last.freedTwice

\* C5: an oversized alloc on a non-empty pool leaves the head block and the
\* cursor as they were, and a bump-path alloc that follows it and fits in
\* the head block returns the region at that cursor in that head block.
C5_LargeAllocKeepsCursor ==
    [][\A p \in Pools :
          /\ (/\ calls' = calls + 1
               /\ last'.op = "alloc" /\ last'.pool = p /\ last'.large
               /\ blockList[p] # NULL) =>
                  /\ blockList'[p] = blockList[p]
                  /\ nextUnit'[p] = nextUnit[p]
          /\ (/\ calls' = calls + 1
               /\ last'.op = "alloc" /\ last'.pool = p /\ ~last'.large
               /\ last'.afterLarge
               /\ nextUnit[p] + last'.len <= BLOCK_UNITS) =>
                  /\ last'.blk = last.preHead
                  /\ last'.off = last.preCursor
                  /\ last'.newBlock = NULL
      ]_vars

\* a bump-path alloc of one unit was served from the head block right after
\* an oversized alloc on the same non-empty pool
C5_Witness ==
    /\ last.op = "alloc"
    /\ ~last.large
    /\ last.afterLarge
    /\ last.len > 0
    /\ last.newBlock = NULL
    /\ last.blk = blockList[last.pool]

(***************************************************************************)
(* Properties of the DD specification protocol.                            *)
(***************************************************************************)
\* the datasize() bytes of the buffers at words p and q are equal
SameBytes(m, p, q) == \A k \in 0..(datasize - 1) : ByteAt(m, p, k) = ByteAt(m, q, k)

\* the words of the buffer at word p are in m2 what they are in m1
WordsKept(m1, m2, p) == \A i \in 0..(BufWords - 1) : m2[p + i] = m1[p + i]

\* C6: HybridDdSpec::get_copy(dst, src) leaves dst with src's scalar and
\* src's array words, so that equal_to(dst, src, level) is true at every
\* level, and leaves src unchanged.
C6_HybridCopyRoundTrip ==
    (kind = "hybrid" /\ dlast.op = "get_copy" /\ ~ub) =>
        LET to == Base(dlast.p)
            from == Base(dlast.q)
        IN  /\ \A k \in ScalarBytes : ByteAt(mem, to, k) = ByteAt(mem, from, k)
            /\ \A i \in S_WORDS..(dataWords - 1) : mem[to + i] = mem[from + i]
            /\ \A level \in Levels : equal_to(mem, to, from, level)
            /\ dlast.srcKept

\* C7: for DdSpec and PodArrayDdSpec, get_copy(dst, src) makes
\* equal_to(dst, src, level) true and the hash codes equal at every level
\* and leaves src unchanged; a change of dst's bytes made right after it
\* makes equal_to(dst, src, level) false and leaves src unchanged.
C7_CopyRoundTrip ==
    [][(calls' = calls + 1 /\ kind \in {"scalar", "pod"}) =>
          /\ dlast'.op = "get_copy" =>
                LET to == Base(dlast'.p)
                    from == Base(dlast'.q)
                IN  /\ \A level \in Levels :
                          /\ equal_to(mem', to, from, level)
                          /\ hash_code(mem', to, level) = hash_code(mem', from, level)
                    /\ WordsKept(mem, mem', from)
          /\ (/\ dlast.op = "get_copy"
              /\ dlast'.op = "get_child"
              /\ dlast'.p = dlast.p
              /\ ~SameBytes(mem', Base(dlast.p), Base(dlast.q))) =>
                /\ \A level \in Levels : ~equal_to(mem', Base(dlast.p), Base(dlast.q), level)
                /\ WordsKept(mem, mem', Base(dlast.q))
      ]_vars

\* a POD array of two words was copied and the copy was then changed
C7_Witness ==
    /\ kind = "pod"
    /\ dataWords >= 2
    /\ dlast.op = "get_child"
    /\ dlast.afterCopy
    /\ dlast.changed
    /\ \E q \in Bufs : q # dlast.p /\ built[q] /\ ~SameBytes(mem, Base(dlast.p), Base(q))

\* C8: HybridDdSpec::destruct(p) on a buffer whose scalar was constructed
\* runs the scalar's destructor once, so that no constructed scalar is left
\* once the builder has called destruct on every buffer it constructed.
C8_HybridDestructRunsDestructor ==
    kind = "hybrid" =>
        /\ dlast.op = "destruct" => objs[dlast.p] = 0
        /\ (\A b \in Bufs : ~built[b]) => \A b \in Bufs : objs[b] = 0

\* C9: for DdSpec, get_root and get_copy construct exactly one State in
\* their buffer (get_root before the user's getRoot runs), destruct destroys
\* exactly one, and no other call constructs or destroys; for PodArrayDdSpec
\* and StatelessDdSpec no call constructs or destroys anything.
C9_ConstructDestructCounts ==
    [][calls' = calls + 1 =>
          /\ kind = "scalar" =>
                /\ dlast'.op \in {"get_root", "get_copy"} =>
                      objs' = [objs EXCEPT ![dlast'.p] = @ + 1]
                /\ dlast'.op = "get_root" =>
                      /\ dlast'.events = <<"construct", "getRoot">>
                      /\ dlast'.w = "keep" =>
                            \A k \in ScalarBytes : ByteAt(mem', Base(dlast'.p), k) = 0
                /\ dlast'.op = "destruct" =>
                      objs' = [objs EXCEPT ![dlast'.p] = @ - 1]
                /\ dlast'.op \in {"get_child", "merge_states", "hash_code", "equal_to"} =>
                      objs' = objs
                /\ \A b \in Bufs : objs'[b] = IF built'[b] THEN 1 ELSE 0
          /\ kind \in {"pod", "stateless"} =>
                /\ objs' = objs
                /\ \A b \in Bufs : objs'[b] = 0
                /\ "construct" \notin SeqSet(dlast'.events)
      ]_vars

\* a scalar state that was constructed has been destroyed by destruct
C9_Witness ==
    /\ kind = "scalar"
    /\ dlast.op = "destruct"
    /\ objs[dlast.p] = 0
    /\ \E b \in Bufs : objs[b] = 1

\* C10: with the default hooks, buffers with the same words are equal_to each
\* other, and buffers that are equal_to each other have the same hash_code,
\* at every level, in the scalar, POD-array and hybrid variants.
C10_EqualImpliesSameHash ==
    (kind \in {"scalar", "pod", "hybrid"} /\ Configured) =>
        \A x \in Bufs, y \in Bufs, level \in Levels :
            LET p == Base(x)
                q == Base(y)
            IN  /\ (\A i \in 0..(BufWords - 1) : mem[p + i] = mem[q + i]) =>
                        equal_to(mem, p, q, level)
                /\ equal_to(mem, p, q, level) =>
                        hash_code(mem, p, level) = hash_code(mem, q, level)

\* two hybrid buffers with an array are equal_to each other although the
\* bytes between the scalar and the array differ
C10_Witness ==
    /\ kind = "hybrid"
    /\ dataWords > S_WORDS
    /\ built[0]
    /\ built[1]
    /\ equal_to(mem, Base(0), Base(1), 1)
    /\ \E i \in 0..(S_WORDS - 1) : mem[Base(0) + i] # mem[Base(1) + i]

\* C11: HybridDdSpec::setArraySize is one-time configuration: the first call
\* succeeds, every later call fails with an error and leaves arraySize and
\* dataWords as they were.
C11_HybridSetArraySizeOnce ==
    [][(calls' = calls + 1 /\ kind = "hybrid" /\ dlast'.op = "setArraySize") =>
          IF arraySize < 0
          THEN ~dlast'.error /\ arraySize' = dlast'.n
          ELSE dlast'.error /\ arraySize' = arraySize /\ dataWords' = dataWords
      ]_vars

\* C12: HybridDdSpec::datasize() called before setArraySize signals an error
\* and returns no size.
C12_HybridDatasizeBeforeSet ==
    (kind = "hybrid" /\ dlast.op = "datasize" /\ arraySize < 0) =>
        dlast.error /\ dlast.size = <<>>

C14_PodDatasizeThrowsUntilSet ==
    [][(calls' = calls + 1 /\ kind = "pod" /\ dlast'.op = "datasize") =>
          /\ UNCHANGED <<arraySize, dataWords>>
          /\ IF arraySize < 0
             THEN dlast'.error /\ dlast'.size = <<>>
             ELSE ~dlast'.error /\ dlast'.size = ToSizeT(dataWords * WORD_SIZE, WORD_SIZE)
      ]_vars

\* datasize() threw on a PodArrayDdSpec whose array size is not set
C14_Witness ==
    /\ kind = "pod"
    /\ dlast.op = "datasize"
    /\ dlast.error
    /\ arraySize < 0

\* C15: from any reachable pool state clear() leaves the pool without blocks
\* and with the cursor at BLOCK_UNITS, frees each block the pool held exactly
\* once and no other block, and changes nothing on a pool that is empty.
C15_ClearFreesAllOnce ==
    [][(calls' = calls + 1 /\ last'.op = "clear") =>
          LET p == last'.pool
          IN  /\ ~ub'
              /\ blockList'[p] = NULL
              /\ nextUnit'[p] = BLOCK_UNITS
              /\ \A b \in Blocks :
                    IF b \in ChainSet(p)
                    THEN heapState[b] = "live" /\ heapState'[b] = "freed"
                    ELSE heapState'[b] = heapState[b]
              /\ blockList[p] = NULL =>
                    UNCHANGED <<blockList, nextUnit, heapNext, heapSize, heapState>>
      ]_vars

\* C16: nextUnit never exceeds BLOCK_UNITS, and a bump-path alloc whose
\* request would take it above BLOCK_UNITS takes a new block of BLOCK_UNITS
\* units, makes it the head in front of the old chain and returns unit 1 of it.
C16_CursorWithinBlock ==
    /\ [](\A p \in Pools : nextUnit[p] <= BLOCK_UNITS)
    /\ [][(/\ calls' = calls + 1
           /\ last'.op = "alloc"
           /\ ~last'.large
           /\ nextUnit[last'.pool] + ElementUnits(last'.n) > BLOCK_UNITS) =>
             LET p == last'.pool
                 b == blockList'[p]
             IN  /\ b # NULL
                 /\ heapState[b] = "unalloc"
                 /\ heapState'[b] = "live"
                 /\ heapSize'[b] = BLOCK_UNITS
                 /\ heapNext'[b] = blockList[p]
                 /\ last'.blk = b
                 /\ last'.off = 1
                 /\ nextUnit'[p] = 1 + ElementUnits(last'.n)
         ]_vars

\* a pool that held a block and had its cursor at BLOCK_UNITS took a new head
\* block for a request of one unit
C16_Witness ==
    /\ last.op = "alloc"
    /\ ~last.large
    /\ last.len = 1
    /\ last.preHead # NULL
    /\ last.preCursor = BLOCK_UNITS
    /\ last.newBlock = blockList[last.pool]
    /\ heapNext[last.newBlock] = last.preHead
    /\ nextUnit[last.pool] = 2

\* C17: with workers that alloc only on their own pool, in any interleaving,
\* and a consumer that splices a worker's pool once the worker has finished,
\* every region returned lies in a block its pool holds, the regions are
\* pairwise disjoint, and after the last splice every region lies in a block
\* of the consumer's pool and every worker's pool is empty.
C17_WorkersDisjointThenSpliced ==
    /\ last.op = "alloc" =>
            /\ last.blk \in ChainSet(last.pool)
            /\ InBlock(last.blk, last.off, last.len)
    /\ \A r1 \in regions :
            /\ InBlock(r1.blk, r1.off, r1.len)
            /\ \A r2 \in regions : r1 # r2 => Disjoint(r1, r2)
    /\ (\A w \in Workers : wstate[w] = "spliced") =>
            /\ ~ub
            /\ \A w \in Workers : blockList[w] = NULL /\ nextUnit[w] = BLOCK_UNITS
            /\ \A r \in regions : r.blk \in ChainSet(Consumer)

\* C18: on a pool that alloc calls alone have left with two or more blocks,
\* the one block reuse() retains is the block allocated earliest among those
\* the pool holds (blocks are numbered in the order of their allocation); on
\* an empty pool reuse() changes neither the chain nor the cursor.
C18_ReuseKeepsOldest ==
    [][(calls' = calls + 1 /\ last'.op = "reuse") =>
          LET p == last'.pool
          IN  /\ blockList[p] = NULL =>
                    UNCHANGED <<blockList, nextUnit, heapNext, heapState>>
              /\ (hist[p] = "fresh" /\ Len(Chain(p)) >= 2) =>
                    /\ ChainFrom(heapNext', blockList'[p]) = <<blockList'[p]>>
                    /\ blockList'[p] \in ChainSet(p)
                    /\ \A b \in ChainSet(p) : blockList'[p] <= b
      ]_vars

\* C19: with the default mergeStates, merge_states(p1, p2) returns 0 and
\* leaves both buffers, and everything else, as they were, in all four
\* variants; the stateless variant calls no hook for it.
C19_MergeStatesDefault ==
    [][(calls' = calls + 1 /\ dlast'.op = "merge_states") =>
          /\ dlast'.code = 0
          /\ mem' = mem
          /\ UNCHANGED <<built, objs, arraySize, dataWords>>
          /\ kind = "stateless" => dlast'.events = <<>>
      ]_vars

\* merge_states was called on two hybrid states with an array
C19_Witness ==
    /\ kind = "hybrid"
    /\ dataWords > S_WORDS
    /\ dlast.op = "merge_states"
    /\ dlast.p # dlast.q
    /\ built[dlast.p]
    /\ built[dlast.q]
    /\ dlast.code = 0

\* C20 as stated: after a.splice(b) with both pools non-empty, a's head block
\* is the block it was, b's blocks follow it in their order, then the rest of
\* a's chain, and a has the cursor b had.
C20_SpliceAfterHead ==
    [][\A a \in Pools, o \in Pools :
          (a # o /\ SpliceStep(a, o) /\ blockList[a] # NULL /\ blockList[o] # NULL) =>
              /\ blockList'[a] = blockList[a]
              /\ ChainFrom(heapNext', blockList'[a])
                    = <<blockList[a]>> \o Chain(o) \o Tail(Chain(a))
              /\ nextUnit'[a] = nextUnit[o]
      ]_vars

\* C20 as the code has it: after a.splice(b) with both pools non-empty, a's
\* chain is b's chain in its order followed by a's chain in its order, so a's
\* head block is the block that was b's head, and a has the cursor b had,
\* which is the cursor that went with that head block.
C20_SpliceInFront ==
    [][\A a \in Pools, o \in Pools :
          (a # o /\ SpliceStep(a, o) /\ blockList[a] # NULL /\ blockList[o] # NULL) =>
              /\ blockList'[a] = blockList[o]
              /\ ChainFrom(heapNext', blockList'[a]) = Chain(o) \o Chain(a)
              /\ nextUnit'[a] = nextUnit[o]
      ]_vars

\* a pool of one block has spliced in a pool of two blocks
C20_Witness ==
    /\ last.op = "splice"
    /\ last.pool # last.other
    /\ last.preHead # NULL
    /\ Len(Chain(last.pool)) = 3
    /\ Chain(last.pool)[3] = last.preHead
    /\ nextUnit[last.pool] = last.preOther

\* C21: alloc(n) takes the large path exactly when its units exceed
\* BLOCK_UNITS / 10; the dedicated block has exactly that many units plus one
\* and its unit 1 is returned; on a non-empty pool it becomes the second block
\* of the chain, on an empty pool it becomes the head with the cursor at
\* BLOCK_UNITS, and the next bump-path alloc on that pool opens a new block of
\* BLOCK_UNITS units instead of returning a place in the dedicated block.
C21_LargePath ==
    [][(calls' = calls + 1 /\ last'.op = "alloc" /\ ~ub') =>
          LET p == last'.pool
              e == ElementUnits(last'.n)
              b == last'.newBlock
          IN  /\ last'.large <=> (e > BLOCK_UNITS \div 10)
              /\ last'.large =>
                    /\ b # NULL
                    /\ heapState[b] = "unalloc"
                    /\ heapState'[b] = "live"
                    /\ heapSize'[b] = e + 1
                    /\ last'.blk = b
                    /\ last'.off = 1
              /\ (last'.large /\ blockList[p] # NULL) =>
                    /\ blockList'[p] = blockList[p]
                    /\ ChainFrom(heapNext', blockList'[p]) =
                          <<blockList[p], b>> \o Tail(Chain(p))
              /\ (last'.large /\ blockList[p] = NULL) =>
                    /\ ChainFrom(heapNext', blockList'[p]) = <<b>>
                    /\ nextUnit'[p] = BLOCK_UNITS
              /\ (/\ ~last'.large
                   /\ last.op = "alloc" /\ last.large /\ last.pool = p
                   /\ last.preHead = NULL) =>
                    /\ b # NULL
                    /\ heapSize'[b] = BLOCK_UNITS
                    /\ last'.blk = b
                    /\ blockList'[p] = b
      ]_vars

\* the value h = hashCode(scalar) * 271828171 folded over the array words
\* S_WORDS .. j-1 of the buffer at p as h = (h + w) * 314159257, modulo 2^64
RECURSIVE C22_Folded(_, _, _)
C22_Folded(m, p, j) ==
    IF j <= S_WORDS
    THEN Mul64(rawHashCode(m, p, sizeofS), 271828171)
    ELSE Mul64(Add64(C22_Folded(m, p, j - 1), m[p + j - 1]), 314159257)

\* C22: the hybrid hash_code(p, level) is hashCode(scalar portion) *
\* 271828171 folded over the array words S_WORDS .. dataWords-1 in increasing
\* order as h = (h + w) * 314159257 modulo 2^64, so buffers with the same
\* scalar hash and the same array words have the same hash_code.
C22_HybridHashFormula ==
    [][(calls' = calls + 1 /\ dlast'.op = "hash_code" /\ kind = "hybrid"
        /\ dataWords >= 0) =>
          /\ dlast'.hash = C22_Folded(mem, Base(dlast'.p), dataWords)
          /\ \A b \in Bufs :
                (/\ rawHashCode(mem, Base(b), sizeofS) =
                        rawHashCode(mem, Base(dlast'.p), sizeofS)
                 /\ \A i \in S_WORDS..(dataWords - 1) :
                        mem[Base(b) + i] = mem[Base(dlast'.p) + i]) =>
                    hash_code(mem, Base(b), dlast'.level) = dlast'.hash
      ]_vars

\* hash_code was taken of a hybrid buffer that has array words, one of them
\* not zero, while the other buffer has the same scalar and array but other
\* bytes between the two
C22_Witness ==
    /\ kind = "hybrid"
    /\ dataWords > S_WORDS
    /\ dlast.op = "hash_code"
    /\ dlast.hash = C22_Folded(mem, Base(dlast.p), dataWords)
    /\ \E i \in S_WORDS..(dataWords - 1) : mem[Base(dlast.p) + i] # Zero64
    /\ \E b \in Bufs \ {dlast.p} :
          /\ built[b]
          /\ hash_code(mem, Base(b), dlast.level) = dlast.hash
          /\ \E i \in 0..(S_WORDS - 1) : mem[Base(b) + i] # mem[Base(dlast.p) + i]

\* ceil(x / w) for x >= 0: the least q with q * w >= x
C23_Ceil(x, w) == CHOOSE q \in 0..x : q * w >= x /\ \A r \in 0..(q - 1) : r * w < x

\* C23: once setArraySize(n) has set the array size, datasize() of the
\* POD-array variant is ceil(n * sizeof(Element) / W) * W and of the hybrid
\* variant (ceil(sizeof(Scalar) / W) + ceil(n * sizeof(Element) / W)) * W, for
\* every n >= 0; the hybrid array portion starts ceil(sizeof(Scalar) / W)
\* words into the buffer, so the scalar and the array are disjoint and both
\* lie within the first datasize() bytes.
C23_DatasizeFormulas ==
    [][(calls' = calls + 1 /\ dlast'.op = "datasize" /\ arraySize >= 0) =>
          LET W == WORD_SIZE
              arr == C23_Ceil(arraySize * sizeofA, W)
              sc == C23_Ceil(sizeofS, W)
          IN  /\ ~dlast'.error
              /\ kind = "pod" => dlast'.size = ToSizeT(arr * W, W)
              /\ kind = "hybrid" =>
                    /\ dlast'.size = ToSizeT((sc + arr) * W, W)
                    /\ ArrayOffset = sc * W
                    /\ ScalarBytes \cap ArrayBytes = {}
                    /\ \A k \in ScalarBytes \cup ArrayBytes : 0 <= k /\ k < (sc + arr) * W
      ]_vars

\* datasize() was called on a hybrid instance whose scalar and whose array
\* both end inside a word
C23_Witness ==
    /\ kind = "hybrid"
    /\ dlast.op = "datasize"
    /\ arraySize >= 1
    /\ sizeofS % WORD_SIZE # 0
    /\ (arraySize * sizeofA) % WORD_SIZE # 0
    /\ dlast.size = ToSizeT((C23_Ceil(sizeofS, WORD_SIZE)
                              + C23_Ceil(arraySize * sizeofA, WORD_SIZE)) * WORD_SIZE,
                            WORD_SIZE)

\* C24: in a debug build get_child(p, level, value) of every variant checks
\* value < ARITY before it calls the user's getChild: with value >= ARITY the
\* user's getChild is not called, and with value < ARITY it is called exactly
\* once with that level and value and its return code is returned unchanged.
C24_GetChildChecksArity ==
    [][(calls' = calls + 1 /\ dlast'.op = "get_child") =>
          IF dlast'.value >= ARITY
          THEN /\ dlast'.aborted
               /\ dlast'.events = <<>>
               /\ mem' = mem
          ELSE /\ ~dlast'.aborted
               /\ dlast'.events = <<"getChild">>
               /\ dlast'.code = UserGetChild(dlast'.level, dlast'.value).code
               /\ dlast'.w = UserGetChild(dlast'.level, dlast'.value).w
               /\ \A l \in Levels, v \in Values :
                     UserGetChild(l, v).code = dlast'.code =>
                        l = dlast'.level /\ v = dlast'.value
      ]_vars

\* get_child was called with value = ARITY on a hybrid instance and the
\* assertion stopped the process before the user's getChild was reached
C24_Witness ==
    /\ kind = "hybrid"
    /\ dlast.op = "get_child"
    /\ dlast.value = ARITY
    /\ dlast.aborted
    /\ dlast.events = <<>>

\* C25: in the scalar, POD-array and hybrid variants get_copy(to, from)
\* changes no byte outside the first datasize() bytes of the buffer at 'to':
\* none of 'from' and none of any other memory.
C25_GetCopyFrame ==
    [][(/\ calls' = calls + 1
        /\ dlast'.op = "get_copy"
        /\ kind \in {"scalar", "pod", "hybrid"}) =>
          LET to == Base(dlast'.p)
              from == Base(dlast'.q)
          IN  /\ ~ub'
              /\ WordsKept(mem, mem', from)
              /\ \A a \in Addrs, i \in 1..WORD_SIZE :
                    (a - to) * WORD_SIZE + (i - 1) \notin 0..(datasize - 1) =>
                        mem'[a][i] = mem[a][i]
      ]_vars

\* C26: a pool that holds no blocks has its cursor at BLOCK_UNITS, and a
\* bump-path alloc of at least one unit on a pool that held no blocks took a
\* new block and returned an address in it, not one computed from a null
\* block pointer.
C26_EmptyPoolCursor ==
    /\ \A p \in Pools : blockList[p] = NULL => nextUnit[p] = BLOCK_UNITS
    /\ (/\ last.op = "alloc"
         /\ ~last.large
         /\ last.len >= 1
         /\ last.preHead = NULL) =>
            /\ last.newBlock # NULL
            /\ last.blk = last.newBlock
            /\ last.off = 1

\* C27: alloc(n) on a pool that holds no blocks, for every n >= 0, leaves the
\* pool holding a block and returns an address inside a block the pool holds.
C27_AllocOnEmptyPool ==
    (last.op = "alloc" /\ last.preHead = NULL) =>
        /\ blockList[last.pool] # NULL
        /\ last.blk \in ChainSet(last.pool)
        /\ heapState[last.blk] = "live"
        /\ 1 <= last.off
        /\ last.off < heapSize[last.blk]
        /\ last.off + last.len <= heapSize[last.blk]

\* C28: every block that was allocated and not freed is in the chain of
\* exactly one pool, and every pool's chain is finite and acyclic and holds
\* no freed block, so that destroying all pools frees every block once.
C28_EveryBlockOwnedOnce ==
    /\ ~ub
    /\ \A b \in Blocks : heapState[b] = "live" =>
            Cardinality({p \in Pools : b \in ChainSet(p)}) = 1
    /\ \A p \in Pools : Walkable(Chain(p))

====
